---------------------------- MODULE Spec2Model ----------------------------
(***************************************************************************)
(* regex_iso8601_datetime.js: two regular expressions for ISO 8601         *)
(* combined date and time strings (a checking-only form and a form with    *)
(* named groups), and the demonstration loop that matches the Cartesian    *)
(* product of sample dates, times and timezone designators.                *)
(*                                                                         *)
(* A string is a sequence of characters; a character is a one-character    *)
(* string, except the two characters named below.  A regular expression    *)
(* is its syntax tree, and matching is the backtracking matcher of         *)
(* ECMAScript (no flags): every way of matching a node is produced in      *)
(* priority order, and the first way that matches the whole pattern wins.  *)
(***************************************************************************)
EXTENDS Integers, Sequences, FiniteSets, TLC

U2212 == "U+2212"   \* the character MINUS SIGN, written − in the source
LF    == "U+000A"   \* the character LINE FEED

(***************************************************************************)
(* Syntax trees of regular expressions.                                    *)
(***************************************************************************)
\* The names of the capturing groups of a syntax tree.
RECURSIVE GroupNames(_)
RECURSIVE GroupNamesOfItems(_)
GroupNamesOfItems(items) ==
    IF items = <<>> THEN {}
    ELSE GroupNames(Head(items)) \cup GroupNamesOfItems(Tail(items))
GroupNames(node) ==
    CASE node.kind = "grp" -> {node.name} \cup GroupNames(node.body)
      [] node.kind = "rep" -> GroupNames(node.body)
      [] node.kind \in {"cat", "alt"} -> GroupNamesOfItems(node.items)
      [] OTHER -> {}

Chr(set)           == [kind |-> "chr", set |-> set]
Lit(c)             == Chr({c})
Cat(items)         == [kind |-> "cat", items |-> items]
Alt(items)         == [kind |-> "alt", items |-> items]
Grp(name, body)    == [kind |-> "grp", name |-> name, body |-> body]
\* a quantified atom {min,max}, with the names of the groups inside the atom
Rep(body, min, max) ==
    [kind |-> "rep", body |-> body, min |-> min, max |-> max, inner |-> GroupNames(body)]
Opt(body)          == Rep(body, 0, 1)
Ref(name)          == [kind |-> "ref", name |-> name]
Bol                == [kind |-> "bol"]
Eol                == [kind |-> "eol"]

\* \d without the u or i flag: the ten ASCII digits
Digit == Chr({"0", "1", "2", "3", "4", "5", "6", "7", "8", "9"})
\* [0-7] in the place of [1-7]: the weekday counted from 0
Digit0to7 == Chr({"0", "1", "2", "3", "4", "5", "6", "7"})
\* [1-7]
Digit1to7 == Chr({"1", "2", "3", "4", "5", "6", "7"})
\* [+\-] in the place of [+\-−]: the MINUS SIGN forgotten
SignClassAscii == Chr({"+", "-"})
\* [+\-−]
SignClass == Chr({"+", "-", U2212})
D(n) == Rep(Digit, n, n)

(***************************************************************************)
(* The matcher.  A matcher state is the position reached and the captures  *)
(* so far; a capture is a pair <<start, end>> of positions (the substring  *)
(* from start+1 to end) or NoCapture.                                      *)
(***************************************************************************)
NoCapture == <<>>

SubSeqOf(str, span) == SubSeq(str, span[1] + 1, span[2])

\* Whether str continues at position pos with the sequence s.
StartsWithAt(str, pos, s) ==
    /\ pos + Len(s) <= Len(str)
    /\ \A i \in 1..Len(s) : str[pos + i] = s[i]

\* $ as the pattern's Python original has it: also before a final line feed
AtEndOrFinalLineFeed(str, pos) ==
    \/ pos = Len(str)
    \/ pos = Len(str) - 1 /\ str[Len(str)] = LF

\* $ without the m flag holds at the end of the string only.
AtEnd(str, pos) == pos = Len(str)

RECURSIVE Matcher(_, _, _)
RECURSIVE MatcherAll(_, _, _)
RECURSIVE MatchCat(_, _, _)
RECURSIVE MatchAlt(_, _, _)
RECURSIVE MatchRep(_, _, _, _, _)
RECURSIVE ContinueRep(_, _, _, _, _, _)

\* Every way of matching node from each state of xs, in priority order.
MatcherAll(node, xs, str) ==
    IF xs = <<>> THEN <<>>
    ELSE Matcher(node, Head(xs), str) \o MatcherAll(node, Tail(xs), str)

\* A sequence of terms: each term continues from every way of the ones before.
MatchCat(items, xs, str) ==
    IF items = <<>> \/ xs = <<>> THEN xs
    ELSE MatchCat(Tail(items), MatcherAll(Head(items), xs, str), str)

\* A disjunction: the ways of the left alternative come first.
MatchAlt(items, x, str) ==
    IF items = <<>> THEN <<>>
    ELSE Matcher(Head(items), x, str) \o MatchAlt(Tail(items), x, str)

\* After one iteration of a quantified atom: an iteration that matched the empty
\* string once the minimum is reached is abandoned.
ContinueRep(node, min, max, x, ys, str) ==
    IF ys = <<>> THEN <<>>
    ELSE (IF min = 0 /\ Head(ys).pos = x.pos THEN <<>>
          ELSE MatchRep(node, IF min = 0 THEN 0 ELSE min - 1, max - 1, Head(ys), str))
         \o ContinueRep(node, min, max, x, Tail(ys), str)

\* A greedy quantifier {min,max}: one more iteration is preferred to stopping,
\* and the captures of the atom are cleared when an iteration begins.
MatchRep(node, min, max, x, str) ==
    IF max = 0 THEN <<x>>
    ELSE LET cleared == IF node.inner = {} THEN x
                        ELSE [x EXCEPT !.caps =
                                [n \in DOMAIN x.caps |->
                                    IF n \in node.inner THEN NoCapture ELSE x.caps[n]]]
             more == ContinueRep(node, min, max, x, Matcher(node.body, cleared, str), str)
         IN  IF min > 0 THEN more ELSE more \o <<x>>

Matcher(node, x, str) ==
    CASE node.kind = "chr" ->
            IF x.pos < Len(str) /\ str[x.pos + 1] \in node.set
            THEN <<[x EXCEPT !.pos = x.pos + 1]>>
            ELSE <<>>
      [] node.kind = "cat" -> MatchCat(node.items, <<x>>, str)
      [] node.kind = "alt" -> MatchAlt(node.items, x, str)
      [] node.kind = "grp" ->
            LET ys == Matcher(node.body, x, str)
            IN  [i \in 1..Len(ys) |->
                    [ys[i] EXCEPT !.caps[node.name] = <<x.pos, ys[i].pos>>]]
      [] node.kind = "rep" -> MatchRep(node, node.min, node.max, x, str)
      [] node.kind = "ref" ->
            \* a reference to a group that has not captured matches the empty string
            IF x.caps[node.name] = NoCapture THEN <<x>>
            ELSE LET s == SubSeqOf(str, x.caps[node.name])
                 IN  IF StartsWithAt(str, x.pos, s)
                     THEN <<[x EXCEPT !.pos = x.pos + Len(s)]>>
                     ELSE <<>>
      [] node.kind = "bol" -> IF x.pos = 0 THEN <<x>> ELSE <<>>
      [] node.kind = "eol" -> IF AtEnd(str, x.pos) THEN <<x>> ELSE <<>>


(***************************************************************************)
(* RegExp.prototype.exec on a pattern without the g or y flag: the match   *)
(* is tried at every start index from 0 to the length of the string, and   *)
(* the first index with a way to match the whole pattern gives the result. *)
(* A group that did not take part in the match is undefined.               *)
(***************************************************************************)
undefined == <<"undefined">>

\* Before a match no group has captured.
NoCaptures(R) == [n \in GroupNames(R) |-> NoCapture]

RECURSIVE ExecFrom(_, _, _, _)
ExecFrom(R, S, index, caps) ==
    IF index > Len(S) THEN [found |-> FALSE]
    ELSE LET ways == Matcher(R, [pos |-> index, caps |-> caps], S)
         IN  IF ways = <<>> THEN ExecFrom(R, S, index + 1, caps)
             ELSE LET r == Head(ways)
                  IN  [found  |-> TRUE,
                       index  |-> index,
                       whole  |-> SubSeq(S, index + 1, r.pos),
                       groups |-> [n \in DOMAIN r.caps |->
                                     IF r.caps[n] = NoCapture THEN undefined
                                     ELSE SubSeqOf(S, r.caps[n])]]

\* S.match(R), which is R.exec(S) for a pattern without the g flag
StringMatch(S, R) == ExecFrom(R, S, 0, NoCaptures(R))

\* R.test(S)
RegExpTest(R, S) == StringMatch(S, R).found

(***************************************************************************)
(* The minimalist form (no useful groups, for checking only).  Its three   *)
(* capturing groups are numbered 1, 2, 3 and exist for \1, \2, \3.         *)
(***************************************************************************)
\* (-?)\d{2}\1\d{2}|(-?)W\d{2}\2[1-7]|-?\d{3}
minimalist_date_forms ==
    Alt(<< Cat(<<Grp("1", Opt(Lit("-"))), D(2), Ref("1"), D(2)>>),
           Cat(<<Grp("2", Opt(Lit("-"))), Lit("W"), D(2), Ref("2"), Digit1to7>>),
           Cat(<<Opt(Lit("-")), D(3)>>) >>)

\* the minimalist time with :? in the place of \3: the two colons unrelated
minimalist_time_separate_colons ==
    Cat(<< D(2),
           Opt(Cat(<< Grp("3", Opt(Lit(":"))), D(2),
                      Opt(Cat(<< Opt(Lit(":")), D(2),
                                 Opt(Cat(<<Lit("."), Rep(Digit, 1, 6)>>)) >>)) >>)) >>)

\* \d{2}(?:(:?)\d{2}(?:\3\d{2}(?:\.\d{1,6})?)?)?
minimalist_time ==
    Cat(<< D(2),
           Opt(Cat(<< Grp("3", Opt(Lit(":"))), D(2),
                      Opt(Cat(<< Ref("3"), D(2),
                                 Opt(Cat(<<Lit("."), Rep(Digit, 1, 6)>>)) >>)) >>)) >>)

\* Z|[+\-−]\d{2}(?::?\d{2}(?::?\d{2})?)?
minimalist_tzinfo ==
    Alt(<< Lit("Z"),
           Cat(<< SignClass, D(2),
                  Opt(Cat(<< Opt(Lit(":")), D(2),
                             Opt(Cat(<<Opt(Lit(":")), D(2)>>)) >>)) >>) >>)

regex_iso8601_datetime_minimalist ==
    Cat(<< Bol, D(4), minimalist_date_forms, Lit("T"), minimalist_time,
           Opt(minimalist_tzinfo), Eol >>)

(***************************************************************************)
(* The expanded (verbose) form, for parsing: the same pattern with a named *)
(* group around every field and around the date, the time and the tzinfo.  *)
(***************************************************************************)
\* the date with (?<ordinalday>\d{4}) in the place of \d{3}
date_group_ordinal4 ==
    Grp("date",
        Cat(<< Grp("year", D(4)),
               Alt(<< Cat(<< Grp("ymd_hyphen", Opt(Lit("-"))), Grp("month", D(2)),
                             Ref("ymd_hyphen"), Grp("day", D(2)) >>),
                      Cat(<< Grp("ywd_hyphen", Opt(Lit("-"))), Lit("W"), Grp("week", D(2)),
                             Ref("ywd_hyphen"), Grp("weekday", Digit1to7) >>),
                      Cat(<< Opt(Lit("-")), Grp("ordinalday", D(4)) >>) >>) >>))

\* the date with -? in the place of \k<ymd_hyphen> and of \k<ywd_hyphen>
date_group_free_hyphens ==
    Grp("date",
        Cat(<< Grp("year", D(4)),
               Alt(<< Cat(<< Grp("ymd_hyphen", Opt(Lit("-"))), Grp("month", D(2)),
                             Opt(Lit("-")), Grp("day", D(2)) >>),
                      Cat(<< Grp("ywd_hyphen", Opt(Lit("-"))), Lit("W"), Grp("week", D(2)),
                             Opt(Lit("-")), Grp("weekday", Digit1to7) >>),
                      Cat(<< Opt(Lit("-")), Grp("ordinalday", D(3)) >>) >>) >>))

\* (?<date>(?<year>\d{4})(?:calendar|week|ordinal))
date_group ==
    Grp("date",
        Cat(<< Grp("year", D(4)),
               Alt(<< Cat(<< Grp("ymd_hyphen", Opt(Lit("-"))), Grp("month", D(2)),
                             Ref("ymd_hyphen"), Grp("day", D(2)) >>),
                      Cat(<< Grp("ywd_hyphen", Opt(Lit("-"))), Lit("W"), Grp("week", D(2)),
                             Ref("ywd_hyphen"), Grp("weekday", Digit1to7) >>),
                      Cat(<< Opt(Lit("-")), Grp("ordinalday", D(3)) >>) >>) >>))

\* the time with \k<ymd_hyphen> in the place of \k<hms_colon>
time_group_date_separator ==
    Grp("time",
        Cat(<< Grp("hour", D(2)),
               Opt(Cat(<< Grp("hms_colon", Opt(Lit(":"))), Grp("minute", D(2)),
                          Opt(Cat(<< Ref("ymd_hyphen"), Grp("second", D(2)),
                                     Opt(Cat(<< Lit("."),
                                                Grp("microsecond", Rep(Digit, 1, 6)) >>))
                                  >>)) >>)) >>))

\* the time with \d{1,7} in the place of \d{1,6}
time_group_fraction7 ==
    Grp("time",
        Cat(<< Grp("hour", D(2)),
               Opt(Cat(<< Grp("hms_colon", Opt(Lit(":"))), Grp("minute", D(2)),
                          Opt(Cat(<< Ref("hms_colon"), Grp("second", D(2)),
                                     Opt(Cat(<< Lit("."),
                                                Grp("microsecond", Rep(Digit, 1, 7)) >>))
                                  >>)) >>)) >>))

\* (?<time>(?<hour>\d{2})(?:(?<hms_colon>:?)(?<minute>\d{2})(?:\k<hms_colon>(?<second>\d{2})(?:\.(?<microsecond>\d{1,6}))?)?)?)
time_group ==
    Grp("time",
        Cat(<< Grp("hour", D(2)),
               Opt(Cat(<< Grp("hms_colon", Opt(Lit(":"))), Grp("minute", D(2)),
                          Opt(Cat(<< Ref("hms_colon"), Grp("second", D(2)),
                                     Opt(Cat(<< Lit("."),
                                                Grp("microsecond", Rep(Digit, 1, 6)) >>))
                                  >>)) >>)) >>))

\* the tzinfo with \k<hms_colon> in the place of its first :?
tzinfo_group_time_separator ==
    Grp("tzinfo",
        Alt(<< Lit("Z"),
               Cat(<< Grp("tzsign", SignClass), Grp("tzhour", D(2)),
                      Opt(Cat(<< Ref("hms_colon"), Grp("tzminute", D(2)),
                                 Opt(Cat(<< Opt(Lit(":")), Grp("tzsecond", D(2)) >>))
                              >>)) >>) >>))

\* (?<tzinfo>Z|(?<tzsign>[+\-−])(?<tzhour>\d{2})(?::?(?<tzminute>\d{2})(?::?(?<tzsecond>\d{2}))?)?)
tzinfo_group ==
    Grp("tzinfo",
        Alt(<< Lit("Z"),
               Cat(<< Grp("tzsign", SignClass), Grp("tzhour", D(2)),
                      Opt(Cat(<< Opt(Lit(":")), Grp("tzminute", D(2)),
                                 Opt(Cat(<< Opt(Lit(":")), Grp("tzsecond", D(2)) >>))
                              >>)) >>) >>))

regex_iso8601_datetime ==
    Cat(<< Bol, date_group, Lit("T"), time_group, Opt(tzinfo_group), Eol >>)

(***************************************************************************)
(* The strings the patterns are applied to.  A sample is a date part, a    *)
(* time part and a timezone part, joined as the demonstration loop joins   *)
(* them; the parts cover every shape of the grammar and the nearby         *)
(* malformed shapes (separators that disagree, a fraction in the wrong     *)
(* place, too short or too long a field).                                  *)
(***************************************************************************)
MaxFrac == 7        \* the longest fractional part that is sampled

DigitChars == <<"0", "1", "2", "3", "4", "5", "6", "7", "8", "9">>
Digits == {DigitChars[i] : i \in 1..10}
Hyphens == {<<>>, <<"-">>}
Colons  == {<<>>, <<":">>}
Signs   == {"+", "-", U2212}

Year  == <<"2", "0", "2", "0">>
Month == <<"0", "1">>
Day   == <<"0", "2">>
Week  == <<"0", "1">>
Ordinal == <<"1", "2", "3">>
Hour  == <<"1", "2">>
Minute == <<"3", "4">>
Second == <<"5", "6">>
\* "." and n digits: 1, 2, 3, ...
Fraction(n) == <<".">> \o [i \in 1..n |-> DigitChars[(i % 10) + 1]]

CalendarDate(h1, h2) == Year \o h1 \o Month \o h2 \o Day
WeekDate(h1, h2, wd) == Year \o h1 \o <<"W">> \o Week \o h2 \o <<wd>>
OrdinalDate(h)       == Year \o h \o Ordinal

HourTime         == Hour
MinuteTime(c1)   == Hour \o c1 \o Minute
SecondTime(c1, c2) == Hour \o c1 \o Minute \o c2 \o Second

Offset1(sign)         == <<sign>> \o <<"1", "2">>
Offset2(sign, c1)     == Offset1(sign) \o c1 \o <<"3", "4">>
Offset3(sign, c1, c2) == Offset2(sign, c1) \o c2 \o <<"5", "6">>

DateSamples ==
    {CalendarDate(h1, h2) : h1 \in Hyphens, h2 \in Hyphens}
    \cup {WeekDate(h1, h2, "2") : h1 \in Hyphens, h2 \in Hyphens}
    \cup {OrdinalDate(h) : h \in Hyphens}
    \cup {<<"2", "0", "2", "0", "-", "1", "3", "-", "9", "9">>}

TimeSamples ==
    {<<>>, HourTime, <<"2", "9">>, <<"1">>}
    \cup {MinuteTime(c) : c \in Colons}
    \cup {SecondTime(c1, c2) : c1 \in Colons, c2 \in Colons}
    \cup {SecondTime(c, c) \o Fraction(n) : c \in Colons, n \in 0..MaxFrac}
    \cup {SecondTime(<<":">>, <<>>) \o Fraction(1), HourTime \o Fraction(1)}
    \cup {MinuteTime(c) \o Fraction(1) : c \in Colons}

TzSamples ==
    {<<>>, <<"Z">>, <<"z">>, <<"Z", "Z">>, <<"+">>, <<"+", "1">>, <<"*", "1", "2">>,
     <<"+", "1", "2", "3">>, <<"+", "1", "2", ":">>}
    \cup {Offset1(s) : s \in Signs}
    \cup {Offset2(s, c) : s \in Signs, c \in Colons}
    \cup {Offset3(s, c1, c2) : s \in Signs, c1 \in Colons, c2 \in Colons}

\* `${test_case_date}T${test_case_time}${test_case_tzinfo}`
Join(d, t, z) == d \o <<"T">> \o t \o z

\* The samples from which further strings are derived by replacing a digit or
\* by inserting, deleting or replacing one character: every accepted date, with
\* every field of the time and (when there is one) of the timezone present.
ProbeSamples ==
    [date   : {CalendarDate(h, h) : h \in Hyphens}
              \cup {WeekDate(h, h, "2") : h \in Hyphens}
              \cup {OrdinalDate(h) : h \in Hyphens},
     time   : {SecondTime(c, c) \o Fraction(3) : c \in Colons},
     tzinfo : {<<>>, <<"Z">>, Offset3(U2212, <<":">>, <<>>)}]

\* The characters that are inserted or put in the place of another.
EditChars == {"0", "8", "-", ":", ".", "T", "W", "Z", "+", U2212, " ", LF}

InsertAt(str, p, c)  == SubSeq(str, 1, p) \o <<c>> \o SubSeq(str, p + 1, Len(str))
DeleteAt(str, p)     == SubSeq(str, 1, p - 1) \o SubSeq(str, p + 1, Len(str))
ReplaceAt(str, p, c) == [str EXCEPT ![p] = c]

(***************************************************************************)
(* The state: a string, how it was obtained, and what the two patterns     *)
(* say of it once they have been applied.                                  *)
(***************************************************************************)
VARIABLES
    pc,         \* "input": the string is not matched yet; "matched": it is
    sample,     \* the date, time and tzinfo parts the string comes from
    origin,     \* how the string was obtained from the sample
    input,      \* test_case, the string under test
    matches,    \* test_case.match(regex_iso8601_datetime)
    valid,      \* regex_iso8601_datetime_minimalist.test(test_case)
    index,      \* the demonstration loop: the triples already visited
    console     \* the demonstration loop: the lines logged

vars == <<pc, sample, origin, input, matches, valid, index, console>>

null == [found |-> FALSE]

\* Which of the three date forms a successful match is.
FormOf(m) ==
    IF m.groups.month # undefined THEN "calendar"
    ELSE IF m.groups.week # undefined THEN "week"
    ELSE "ordinal"

AsSampled == [kind |-> "sample", pos |-> 0, ch |-> "", form |-> ""]

Init ==
    /\ pc = "input"
    /\ sample \in [date : DateSamples, time : TimeSamples, tzinfo : TzSamples]
    /\ \/ /\ origin = AsSampled
          /\ input = Join(sample.date, sample.time, sample.tzinfo)
       \/ /\ origin = [AsSampled EXCEPT !.kind = "notime"]
          /\ sample.time = <<>>
          /\ input = sample.date \o sample.tzinfo
    /\ matches = null
    /\ valid = FALSE
    /\ index = 0
    /\ console = <<>>

\* Both patterns are applied to the string.
Match ==
    /\ pc = "input"
    /\ pc' = "matched"
    /\ matches' = StringMatch(input, regex_iso8601_datetime)
    /\ valid' = RegExpTest(regex_iso8601_datetime_minimalist, input)
    /\ UNCHANGED <<sample, origin, input, index, console>>

Derive(kind, p, c, str) ==
    /\ pc = "matched"
    /\ origin = AsSampled
    /\ sample \in ProbeSamples
    /\ matches.found
    /\ pc' = "input"
    /\ origin' = [kind |-> kind, pos |-> p, ch |-> c, form |-> FormOf(matches)]
    /\ input' = str
    /\ matches' = null
    /\ valid' = FALSE
    /\ UNCHANGED <<sample, index, console>>

\* One digit of an accepted string is replaced by another digit.
ReplaceDigit ==
    \E p \in 1..Len(input) : \E d \in Digits :
        /\ input[p] \in Digits
        /\ d # input[p]
        /\ Derive("digit", p, d, ReplaceAt(input, p, d))

Insert ==
    \E p \in 0..Len(input) : \E c \in EditChars :
        Derive("insert", p, c, InsertAt(input, p, c))

Delete ==
    \E p \in 1..Len(input) :
        Derive("delete", p, input[p], DeleteAt(input, p))

Substitute ==
    \E p \in 1..Len(input) : \E c \in EditChars :
        /\ c # input[p]
        /\ Derive("substitute", p, c, ReplaceAt(input, p, c))

Next == Match \/ ReplaceDigit \/ Insert \/ Delete \/ Substitute

Spec == Init /\ [][Next]_vars

(***************************************************************************)
(* The demonstration loop: every triple of the Cartesian product of the    *)
(* three lists of samples is joined, matched and logged.                   *)
(***************************************************************************)
RECURSIVE product(_)
RECURSIVE ProductOfItems(_, _)
\* the loops with last_items.concat([item]) in the place of [item].concat(last_items)
RECURSIVE ProductOfItemsReversed(_, _)
ProductOfItemsReversed(first_iterable, last_iterables) ==
    IF first_iterable = <<>> THEN <<>>
    ELSE LET item == Head(first_iterable)
             lasts == product(last_iterables)
         IN  [i \in 1..Len(lasts) |-> lasts[i] \o <<item>>]
             \o ProductOfItemsReversed(Tail(first_iterable), last_iterables)

\* for (let item of first_iterable) for (let last_items of product(...last_iterables))
\*     yield [item].concat(last_items)
ProductOfItems(first_iterable, last_iterables) ==
    IF first_iterable = <<>> THEN <<>>
    ELSE LET item == Head(first_iterable)
             lasts == product(last_iterables)
         IN  [i \in 1..Len(lasts) |-> <<item>> \o lasts[i]]
             \o ProductOfItems(Tail(first_iterable), last_iterables)

\* function* product(...iterables): the tuples in the order they are yielded
product(iterables) ==
    IF Len(iterables) = 0 THEN << <<>> >>
    ELSE ProductOfItems(Head(iterables), Tail(iterables))

test_cases_date ==
    << <<"2", "0", "2", "0", "-", "0", "1", "-", "0", "2">>,
       <<"2", "0", "2", "0", "0", "1", "0", "2">>,
       <<"2", "0", "2", "0", "-", "W", "0", "1", "-", "2">>,
       <<"2", "0", "2", "0", "W", "0", "1", "2">>,
       <<"2", "0", "2", "0", "1", "2", "3">>,
       <<"2", "0", "2", "0", "-", "1", "2", "3">> >>

test_cases_time ==
    << <<"1", "2", ":", "3", "4", ":", "5", "6">>,
       <<"1", "2", "3", "4", "5", "6">>,
       <<"1", "2", ":", "3", "4", ":", "5", "6", ".", "1", "2", "3", "4", "5", "6">>,
       <<"1", "2", "3", "4", "5", "6", ".", "1", "2", "3", "4", "5", "6">> >>

test_cases_tzinfo ==
    << <<>>,
       <<"Z">>,
       <<"+", "1", "2", ":", "3", "4">>,
       <<"+", "1", "2", "3", "4">>,
       <<"+", "1", "2">>,
       <<"+", "1", "2", "3", "4", "5", "6">> >>

\* the triples the for loop goes through
test_case_triples == product(<<test_cases_date, test_cases_time, test_cases_tzinfo>>)

HarnessInit ==
    /\ pc = "loop"
    /\ index = 0
    /\ console = <<>>
    /\ sample = [date |-> <<>>, time |-> <<>>, tzinfo |-> <<>>]
    /\ origin = AsSampled
    /\ input = <<>>
    /\ matches = null
    /\ valid = FALSE

\* One turn of the for loop: the next triple is joined, matched and logged.
Iterate ==
    /\ pc = "loop"
    /\ index < Len(test_case_triples)
    /\ LET triple == test_case_triples[index + 1]
           test_case == Join(triple[1], triple[2], triple[3])
           m == StringMatch(test_case, regex_iso8601_datetime)
       IN  /\ sample' = [date |-> triple[1], time |-> triple[2], tzinfo |-> triple[3]]
           /\ input' = test_case
           /\ matches' = m
           /\ console' = Append(console,
                 IF m.found
                 THEN [test_case |-> test_case, matched |-> TRUE,
                       date |-> m.groups.date, time |-> m.groups.time,
                       tzinfo |-> m.groups.tzinfo]
                 ELSE [test_case |-> test_case, matched |-> FALSE,
                       date |-> undefined, time |-> undefined, tzinfo |-> undefined])
    /\ index' = index + 1
    /\ UNCHANGED <<pc, origin, valid>>

\* The generator is exhausted and the loop ends.
Finish ==
    /\ pc = "loop"
    /\ index = Len(test_case_triples)
    /\ pc' = "done"
    /\ UNCHANGED <<sample, origin, input, matches, valid, index, console>>

HarnessNext == Iterate \/ Finish

HarnessSpec == HarnessInit /\ [][HarnessNext]_vars

(***************************************************************************)
(* The properties.  The well-formed parts among the samples, as the        *)
(* grammar of the specification describes them:                            *)
(*   date := year (sep month sep day | sep "W" week sep weekday            *)
(*                 | "-"? ordinalday)                                      *)
(*   time := hour (sep minute (sep second ("." digit{1,6})?)?)?            *)
(*   tzinfo := "Z" | sign tzhour (":"? tzminute (":"? tzsecond)?)?         *)
(***************************************************************************)
GoodDates ==
    {CalendarDate(h, h) : h \in Hyphens}
    \cup {WeekDate(h, h, "2") : h \in Hyphens}
    \cup {OrdinalDate(h) : h \in Hyphens}
    \cup {<<"2", "0", "2", "0", "-", "1", "3", "-", "9", "9">>}

GoodTimes ==
    {HourTime, <<"2", "9">>}
    \cup {MinuteTime(c) : c \in Colons}
    \cup {SecondTime(c, c) : c \in Colons}
    \cup {SecondTime(c, c) \o Fraction(n) : c \in Colons, n \in 1..6}

GoodTzs ==
    {<<>>, <<"Z">>}
    \cup {Offset1(s) : s \in Signs}
    \cup {Offset2(s, c) : s \in Signs, c \in Colons}
    \cup {Offset3(s, c1, c2) : s \in Signs, c1 \in Colons, c2 \in Colons}

Matched  == pc = "matched"
Accepted == pc = "matched" /\ matches.found
Sampled  == pc = "matched" /\ origin.kind = "sample"
Defined(v) == v # undefined
IsDigits(v, n) == Len(v) = n /\ \A i \in 1..n : v[i] \in Digits

\* C1: the minimalist pattern accepts a string if and only if the expanded
\* pattern accepts it.
C1_SameLanguage == Matched => (valid <=> matches.found)

C1_Witness == Accepted /\ valid /\ origin.kind = "substitute"

\* Every way of matching the expanded pattern to the whole string, not only the
\* first: the date form of each.
FormOfCaptures(caps) ==
    IF caps["month"] # NoCapture THEN "calendar"
    ELSE IF caps["week"] # NoCapture THEN "week"
    ELSE "ordinal"

AllWays(S) ==
    Matcher(regex_iso8601_datetime,
            [pos |-> 0, caps |-> NoCaptures(regex_iso8601_datetime)], S)

\* C2: a successful decomposition populates exactly one of the three date forms
\* (month and day, or week and weekday, or ordinalday) and leaves the fields of
\* the other two undefined; and no accepted string can be matched through two
\* different date alternatives.
C2_ExactlyOneDateForm ==
    Accepted =>
        LET g == matches.groups
            calendar == Defined(g.month) /\ Defined(g.day)
            week     == Defined(g.week) /\ Defined(g.weekday)
            ordinal  == Defined(g.ordinalday)
            ways     == AllWays(input)
        IN  /\ Defined(g.month) <=> Defined(g.day)
            /\ Defined(g.week) <=> Defined(g.weekday)
            /\ \/ calendar /\ ~week /\ ~ordinal /\ ~Defined(g.ywd_hyphen)
               \/ ~calendar /\ week /\ ~ordinal /\ ~Defined(g.ymd_hyphen)
               \/ /\ ~calendar /\ ~week /\ ordinal
                  /\ ~Defined(g.ymd_hyphen) /\ ~Defined(g.ywd_hyphen)
            /\ \A i \in 1..Len(ways) : FormOfCaptures(ways[i].caps) = FormOf(matches)

C2_Witness ==
    /\ Accepted
    /\ FormOf(matches) = "week"
    /\ matches.groups.month = undefined
    /\ matches.groups.ordinalday = undefined

\* C3: with a well-formed time and timezone, a calendar date or a week date is
\* accepted if and only if its two hyphens are both present or both absent.
C3_HyphensAgree ==
    (Sampled /\ sample.time \in GoodTimes /\ sample.tzinfo \in GoodTzs) =>
        \A h1 \in Hyphens, h2 \in Hyphens :
            /\ sample.date = CalendarDate(h1, h2) => (matches.found <=> h1 = h2)
            /\ sample.date = WeekDate(h1, h2, "2") => (matches.found <=> h1 = h2)

C3_Witness ==
    /\ Sampled
    /\ sample.date = CalendarDate(<<"-">>, <<>>)
    /\ sample.time = SecondTime(<<":">>, <<":">>)
    /\ sample.tzinfo = <<>>
    /\ ~matches.found

\* C4: a time whose two colons disagree is rejected, and every well-formed date
\* joined to every well-formed time (and timezone) is accepted, whatever the
\* separators of the date and of the time.
C4_ColonsAgreeIndependently ==
    Sampled =>
        /\ \A c1 \in Colons, c2 \in Colons :
              (/\ c1 # c2
               /\ sample.time \in {SecondTime(c1, c2), SecondTime(c1, c2) \o Fraction(1)})
              => ~matches.found
        /\ (/\ sample.date \in GoodDates
            /\ sample.time \in GoodTimes
            /\ sample.tzinfo \in GoodTzs)
           => /\ matches.found
              /\ matches.groups.date = sample.date
              /\ matches.groups.time = sample.time

C4_Witness ==
    /\ Sampled
    /\ sample.date = CalendarDate(<<"-">>, <<"-">>)
    /\ sample.time = SecondTime(<<>>, <<>>)
    /\ matches.found

\* C5: in a successful decomposition hour is defined, microsecond only with
\* second, and second only with minute; a time of an hour only, or of hour and
\* minute, is accepted; a fraction is accepted only after a second and only
\* with 1 to 6 digits.
C5_TimeNesting ==
    /\ Accepted =>
          LET g == matches.groups
          IN  /\ Defined(g.hour)
              /\ Defined(g.microsecond) => Defined(g.second)
              /\ Defined(g.second) => Defined(g.minute)
    /\ (Sampled /\ sample.date \in GoodDates /\ sample.tzinfo \in GoodTzs) =>
          LET g == matches.groups
          IN  /\ sample.time = HourTime =>
                    matches.found /\ g.hour = Hour /\ ~Defined(g.minute)
              /\ \A c \in Colons :
                    /\ sample.time = MinuteTime(c) =>
                          /\ matches.found
                          /\ g.minute = Minute
                          /\ ~Defined(g.second)
                    /\ sample.time = SecondTime(c, c) =>
                          /\ matches.found
                          /\ g.second = Second
                          /\ ~Defined(g.microsecond)
                    /\ sample.time = MinuteTime(c) \o Fraction(1) => ~matches.found
                    /\ \A n \in 0..MaxFrac :
                          sample.time = SecondTime(c, c) \o Fraction(n) =>
                              /\ matches.found <=> (1 <= n /\ n <= 6)
                              /\ matches.found =>
                                    <<".">> \o g.microsecond = Fraction(n)
              /\ sample.time = HourTime \o Fraction(1) => ~matches.found

C5_Witness ==
    /\ Sampled
    /\ sample.date \in GoodDates
    /\ sample.tzinfo \in GoodTzs
    /\ sample.time = SecondTime(<<":">>, <<":">>) \o Fraction(7)
    /\ ~matches.found

\* tzinfo, taken as the empty string when it is undefined
OrEmpty(v) == IF v = undefined THEN <<>> ELSE v

\* C6: a match covers the whole string: the string is date, "T", time and tzinfo
\* and nothing else; so a string with a space or a line feed inserted anywhere
\* (in front and at the end included) is rejected, and so is a date, with or
\* without a timezone, that has no "T" and time.
C6_WholeString ==
    /\ Accepted =>
          LET g == matches.groups
          IN  /\ matches.index = 0
              /\ matches.whole = input
              /\ input = g.date \o <<"T">> \o g.time \o OrEmpty(g.tzinfo)
    /\ (Matched /\ origin.kind = "insert" /\ origin.ch \in {" ", LF}) => ~matches.found
    /\ (Matched /\ origin.kind = "notime") => ~matches.found

C6_Witness ==
    /\ Matched
    /\ origin.kind = "insert"
    /\ origin.ch = LF
    /\ origin.pos = Len(input) - 1
    /\ input[Len(input)] = LF
    /\ ~matches.found

\* C7: after a well-formed date and time the timezone is accepted if and only
\* if it is empty, "Z", or a sign (+, -, U+2212) and tzhour, tzhour[:]tzminute or
\* tzhour[:]tzminute[:]tzsecond, each colon optional on its own whatever the
\* separators of the time; tzsecond is defined only with tzminute, and tzsign
\* and tzhour exactly when tzinfo is an offset.
C7_Timezone ==
    /\ (Sampled /\ sample.date \in GoodDates /\ sample.time \in GoodTimes) =>
          /\ matches.found <=> sample.tzinfo \in GoodTzs
          /\ matches.found => OrEmpty(matches.groups.tzinfo) = sample.tzinfo
    /\ Accepted =>
          LET g == matches.groups
              offset == Defined(g.tzinfo) /\ g.tzinfo # <<"Z">>
          IN  /\ Defined(g.tzinfo) => Len(g.tzinfo) > 0
              /\ Defined(g.tzsign) <=> offset
              /\ Defined(g.tzhour) <=> offset
              /\ Defined(g.tzsecond) => Defined(g.tzminute)
              /\ Defined(g.tzminute) => offset
              /\ offset =>
                    /\ Len(g.tzsign) = 1 /\ g.tzsign[1] \in Signs
                    /\ IsDigits(g.tzhour, 2)
                    /\ Defined(g.tzminute) => IsDigits(g.tzminute, 2)
                    /\ Defined(g.tzsecond) => IsDigits(g.tzsecond, 2)
                    /\ \E c1 \in Colons, c2 \in Colons :
                          g.tzinfo = g.tzsign \o g.tzhour
                                     \o (IF Defined(g.tzminute)
                                         THEN c1 \o g.tzminute ELSE <<>>)
                                     \o (IF Defined(g.tzsecond)
                                         THEN c2 \o g.tzsecond ELSE <<>>)

C7_Witness ==
    /\ Sampled
    /\ sample.time = SecondTime(<<>>, <<>>)
    /\ sample.tzinfo = Offset3(U2212, <<":">>, <<>>)
    /\ matches.found
    /\ matches.groups.tzsign = <<U2212>>
    /\ matches.groups.tzsecond = <<"5", "6">>

\* C8: replacing a digit of an accepted string by another digit gives an
\* accepted string of the same date form, except the weekday, which must stay
\* within 1..7; month 13, day 99 and hour 29 are accepted.
C8_NoBoundsOnDigits ==
    /\ (Matched /\ origin.kind = "digit") =>
          LET weekday == origin.form = "week" /\ origin.pos = Len(sample.date)
          IN  /\ matches.found <=>
                    (weekday => origin.ch \in {"1", "2", "3", "4", "5", "6", "7"})
              /\ matches.found => FormOf(matches) = origin.form
    /\ (Sampled /\ sample.time \in GoodTimes /\ sample.tzinfo \in GoodTzs
        /\ sample.date = <<"2", "0", "2", "0", "-", "1", "3", "-", "9", "9">>) =>
          /\ matches.found
          /\ matches.groups.month = <<"1", "3">>
          /\ matches.groups.day = <<"9", "9">>
    /\ (Sampled /\ sample.date \in GoodDates /\ sample.tzinfo \in GoodTzs
        /\ sample.time = <<"2", "9">>) =>
          matches.found /\ matches.groups.hour = <<"2", "9">>

C8_Witness ==
    /\ Matched
    /\ origin.kind = "digit"
    /\ origin.form = "week"
    /\ origin.pos = Len(sample.date)
    /\ origin.ch = "8"
    /\ ~matches.found

\* The date, the time and the tzinfo sub-patterns alone, anchored at both ends.
date_alone   == Cat(<<Bol, date_group, Eol>>)
time_alone   == Cat(<<Bol, time_group, Eol>>)
tzinfo_alone == Cat(<<Bol, tzinfo_group, Eol>>)

\* S matched against a sub-pattern alone gives the groups of part (a sub-pattern
\* of it) as the match m of the whole string gave them.
SameFields(S, alone, part, m) ==
    LET r == ExecFrom(alone, S, 0, NoCaptures(regex_iso8601_datetime))
    IN  /\ r.found
        /\ \A n \in GroupNames(part) : r.groups[n] = m.groups[n]

\* C9: the date, time and tzinfo substrings of a successful decomposition, each
\* matched against its own sub-pattern alone, match and give the same fields.
C9_RoundTrip ==
    Accepted =>
        LET g == matches.groups
        IN  /\ SameFields(g.date, date_alone, date_group, matches)
            /\ SameFields(g.time, time_alone, time_group, matches)
            /\ Defined(g.tzinfo) =>
                  SameFields(g.tzinfo, tzinfo_alone, tzinfo_group, matches)

C9_Witness ==
    /\ Accepted
    /\ Defined(matches.groups.tzminute)
    /\ Defined(matches.groups.microsecond)
    /\ Defined(matches.groups.weekday)

\* C10: the loop visits the 6*4*6 = 144 triples once each, the date slowest and
\* the tzinfo fastest, and every string date + "T" + time + tzinfo is matched
\* with groups.date, groups.time and groups.tzinfo equal to the three samples
\* (tzinfo undefined for the empty sample): "not matched" is never logged.
C10_HarnessAllMatched ==
    LET nd == Len(test_cases_date)
        nt == Len(test_cases_time)
        nz == Len(test_cases_tzinfo)
    IN  /\ index = Len(console)
        /\ index <= 144
        /\ pc = "done" => index = 144
        /\ \A k \in 1..Len(console) :
              LET d == test_cases_date[((k - 1) \div (nt * nz)) + 1]
                  t == test_cases_time[(((k - 1) \div nz) % nt) + 1]
                  z == test_cases_tzinfo[((k - 1) % nz) + 1]
              IN  console[k] =
                      [test_case |-> d \o <<"T">> \o t \o z, matched |-> TRUE,
                       date |-> d, time |-> t,
                       tzinfo |-> IF z = <<>> THEN undefined ELSE z]

C10_Witness == pc = "done" /\ Len(console) = 144 /\ console[144].matched

=============================================================================
